---- MODULE Spec2Model ----
(***************************************************************************)
(* Option-Max-Pain: the data cache (lib/data-cache), the provider cascade  *)
(* (lib/data-providers, ProviderManager) and the equity adapters' error    *)
(* surface, as a state machine of interleaved async requests.              *)
(*                                                                         *)
(* A request is one call of getCachedOptionsChain made by the /api/options *)
(* route.  JavaScript runs each continuation to its next await without     *)
(* interruption, so every action below is one such run: from the call (or  *)
(* from the settling of the awaited promise) to the next await or return.  *)
(* The one await that is not a step of its own is `await import(...)`      *)
(* before generateMockData: nothing the code does after it reads shared    *)
(* state, so it is taken together with the run that reaches it.            *)
(*                                                                         *)
(* Time is counted in whole minutes of local wall-clock time: the schedule *)
(* test of shouldRefresh reads getHours() and getMinutes() only.           *)
(***************************************************************************)
EXTENDS Integers, Sequences, FiniteSets, TLC

VARIABLES
    now,                        \* the wall clock, minutes since local midnight of day 0
    ticks,                      \* how many times the clock has advanced
    cache,                      \* data-cache: Map<string, CachedData>
    usingMockData,              \* data-cache: Map<string, boolean>
    providers,                  \* ProviderManager.providers (fixed by the constructor)
    currentProviderIndex,       \* ProviderManager.currentProviderIndex
    hasWarnedAboutAuthFailure,  \* ProviderManager.hasWarnedAboutAuthFailure
    authFailureDetected,        \* ProviderManager.authFailureDetected
    req,                        \* the requests in flight, by slot
    authTripped,                \* history: an equity auth-class failure was handled
                                \* and no forced refresh has been requested since
    calc                        \* the call of a pure function under study: its
                                \* arguments and, once it has run, its result

vars == <<now, ticks, cache, usingMockData, providers, currentProviderIndex,
          hasWarnedAboutAuthFailure, authFailureDetected, req, authTripped, calc>>

-----------------------------------------------------------------------------
(* Bounds of the model *)

MaxReq == 2         \* request slots: how many requests may overlap
MaxTicks == 3       \* how many times the clock advances in one behaviour

Requests == 1..MaxReq

(* The tickers requested, the local times a behaviour may begin at, and    *)
(* the amounts the clock advances by between two steps (in minutes).       *)
Tickers == {"TSLA", "BTC"}
StartTimes == {0, 539, 689, 929}
FixedTimes == {0, 550}
TickSteps == {1, 479}

-----------------------------------------------------------------------------
(* Program constants *)

CRYPTO_TICKERS == {"BTC", "ETH", "SOL", "XRP", "ADA", "DOGE", "MATIC", "AVAX", "DOT", "LINK"}

isCryptoTicker(ticker) == ticker \in CRYPTO_TICKERS

\* UPDATE_TIMES = [9.5, 12, 16] hours, in minutes
UPDATE_TIMES == <<570, 720, 960>>

\* hoursSinceUpdate > 8, hoursUntilNext < 0.5, and the day, in minutes
StaleMinutes == 480
WindowMinutes == 30
DayMinutes == 1440

\* the cryptoProviders the constructor pushes, in order
cryptoProviders == <<"Deribit", "OKX", "Bybit">>

\* the providers lists the constructor can build from the two API keys
ProviderConfigs ==
    { <<>>, <<"Polygon.io">>, <<"MarketData.app">>, <<"Polygon.io", "MarketData.app">> }

-----------------------------------------------------------------------------
(* Chains.  A chain is described by where it came from and how many        *)
(* contracts it holds after the monthly/quarterly filter (0 or some).      *)

NoData == [kind |-> "none", src |-> "none", n |-> 0]

ProviderChain(p, n) == [kind |-> "real", src |-> p, n |-> n]

\* generateMockData: a chain of the synthetic generator (never empty)
generateMockData(ticker) == [kind |-> "synthetic", src |-> "mock", n |-> 1]

\* the crypto merge of the successful results: all their contracts
MergedChain(results) ==
    [kind |-> "merged", src |-> "merge",
     n |-> IF \E k \in DOMAIN results : results[k].n > 0 THEN 1 ELSE 0]

\* fetched is history: the time at which the cascade that produced the cached
\* chain was entered
NoEntry == [has |-> FALSE, data |-> NoData, timestamp |-> 0, fetched |-> 0]

-----------------------------------------------------------------------------
(* The equity adapters.  A response is what the vendor's HTTP API did:     *)
(* status 0 is a transport failure (fetch rejects), otherwise the HTTP     *)
(* status of the request that decided the outcome (stage) and, for 200,    *)
(* what the body held: no contracts, contracts that the expiration filter  *)
(* all drops, or some contracts that survive it.                           *)
(* An error message is the sequence of its words, punctuation dropped;     *)
(* includes() looks for a word, case-sensitively, as                       *)
(* String.prototype.includes does for the four words the cascade tests.    *)

HttpFailures == {401, 403, 404, 500}
Bodies == {"none", "filtered", "some"}

EquityResponses(p) ==
    LET stages == IF p = "Polygon.io" THEN {"stock", "contracts"} ELSE {"chain"}
    IN  [status : {0} \cup HttpFailures, stage : stages, body : {"none"}]
        \cup [status : {200}, stage : stages \ {"stock"}, body : Bodies]

NoResponse == [status |-> -1, stage |-> "none", body |-> "none"]

\* Response.statusText
statusText(status) ==
    CASE status = 401 -> <<"Unauthorized">>
      [] status = 403 -> <<"Forbidden">>
      [] status = 404 -> <<"Not", "Found">>
      [] status = 500 -> <<"Internal", "Server", "Error">>
      [] OTHER -> <<>>

\* `${status}` inside a message
statusDigits(status) ==
    CASE status = 401 -> "401"
      [] status = 403 -> "403"
      [] status = 404 -> "404"
      [] status = 500 -> "500"
      [] OTHER -> "0"

Failure(msg) == [ok |-> FALSE, n |-> 0, msg |-> msg]
Success(n) == [ok |-> TRUE, n |-> n, msg |-> <<>>]

FetchFailed == <<"fetch", "failed">>

PolygonAuthMessage ==
    <<"API", "key", "invalid", "or", "unauthorized", "Please", "check", "your",
      "POLYGON_API_KEY", "in", ".env.local">>

PolygonFetchOptionsChain(ticker, resp) ==
    IF resp.status = 0 THEN Failure(FetchFailed)
    ELSE IF resp.stage = "stock" THEN
        IF resp.status = 403 \/ resp.status = 401
        THEN Failure(PolygonAuthMessage)
        ELSE Failure(<<"Failed", "to", "fetch", "stock", "price:">>
                     \o statusText(resp.status) \o <<statusDigits(resp.status)>>)
    ELSE IF resp.status # 200 THEN
        IF resp.status = 403 \/ resp.status = 401
        THEN Failure(PolygonAuthMessage)
        ELSE IF resp.status = 404
        THEN Failure(<<"No", "options", "data", "found", "for", ticker, "This",
                       "ticker", "may", "not", "have", "options", "available">>)
        ELSE Failure(<<"Failed", "to", "fetch", "options", "contracts:">>
                     \o statusText(resp.status) \o <<statusDigits(resp.status)>>)
    ELSE IF resp.body = "none"
        THEN Failure(<<"No", "options", "contracts", "found", "for", ticker>>)
        ELSE Success(IF resp.body = "some" THEN 1 ELSE 0)

MarketDataFetchOptionsChain(ticker, resp) ==
    IF resp.status = 0 THEN Failure(FetchFailed)
    ELSE IF resp.status # 200
        THEN Failure(<<"Failed", "to", "fetch", "options:">> \o statusText(resp.status))
    ELSE IF resp.body = "none"
        THEN Failure(<<"No", "options", "data", "found", "for", ticker, "from",
                       "MarketData.app">>)
        ELSE Success(IF resp.body = "some" THEN 1 ELSE 0)

AdapterFetch(p, ticker, resp) ==
    IF p = "Polygon.io" THEN PolygonFetchOptionsChain(ticker, resp)
    ELSE MarketDataFetchOptionsChain(ticker, resp)

includes(msg, word) == \E k \in DOMAIN msg : msg[k] = word

\* ProviderManager.fetchOptionsChain: the auth test of the catch block
IsAuthError(errorMessage) ==
    \/ includes(errorMessage, "invalid")
    \/ includes(errorMessage, "unauthorized")
    \/ includes(errorMessage, "403")
    \/ includes(errorMessage, "401")

\* the error the cascade throws for a chain that is empty after filtering
EmptyChainMessage(p, ticker) ==
    <<"Provider", p, "returned", "0", "options", "after", "filtering", "for", ticker>>

-----------------------------------------------------------------------------
(* Requests *)

IdleReq ==
    [pc |-> "idle", ticker |-> "none", force |-> FALSE, i |-> 0, cur |-> "none",
     invoked |-> <<>>, results |-> <<>>, resp |-> NoResponse,
     data |-> NoData, hit |-> FALSE, live |-> FALSE, started |-> 0]

\* no pure function is under study while the requests run
NoCalc == [op |-> "none"]

InitAt(times) ==
    /\ now \in times
    /\ ticks = 0
    /\ cache = [t \in Tickers |-> NoEntry]
    /\ usingMockData = [t \in Tickers |-> FALSE]
    /\ providers \in ProviderConfigs
    /\ currentProviderIndex = 0
    /\ hasWarnedAboutAuthFailure = FALSE
    /\ authFailureDetected = FALSE
    /\ req = [r \in Requests |-> IdleReq]
    /\ authTripped = FALSE
    /\ calc = NoCalc

\* the clock stands still: midnight (a fresh entry is served) or 09:10 (inside
\* the window before 09:30: every entry is stale)
Init == InitAt(FixedTimes)

\* the clock runs, from just before a window opens
InitClock == InitAt(StartTimes)

-----------------------------------------------------------------------------
(* The crypto adapters: a failure to get a price or the instrument list    *)
(* throws; otherwise a chain is returned, possibly with no contract.       *)

CryptoResponses ==
    [status : {0, 500}, stage : {"instruments"}, body : {"none"}]
    \cup [status : {200}, stage : {"instruments"}, body : {"filtered", "some"}]

CryptoFetch(p, ticker, resp) ==
    IF p = "Deribit" /\ ticker \notin {"BTC", "ETH"}
    THEN Failure(<<"Deribit", "does", "not", "support", ticker, "options">>)
    ELSE IF resp.status = 0 THEN Failure(FetchFailed)
    ELSE IF resp.status # 200
        THEN Failure(<<"Failed", "to", "fetch", "options", "from", p>>
                     \o statusText(resp.status))
        ELSE Success(IF resp.body = "some" THEN 1 ELSE 0)

-----------------------------------------------------------------------------
(* data-cache: shouldRefresh *)

Min(S) == CHOOSE x \in S : \A y \in S : x <= y

\* a variant that also refreshes at exactly 30 minutes before a scheduled time
shouldRefreshInclusive(ticker) ==
    LET cached == cache[ticker] IN
    IF ~cached.has THEN TRUE
    ELSE
        LET hoursSinceUpdate == now - cached.timestamp
            currentHour == now % DayMinutes
            later == {k \in DOMAIN UPDATE_TIMES : UPDATE_TIMES[k] > currentHour}
            nextUpdate == IF later # {} THEN UPDATE_TIMES[Min(later)] ELSE UPDATE_TIMES[1]
            hoursUntil == IF nextUpdate > currentHour
                          THEN nextUpdate - currentHour
                          ELSE (DayMinutes - currentHour) + nextUpdate
        IN  hoursSinceUpdate > StaleMinutes \/ hoursUntil <= WindowMinutes

shouldRefresh(ticker) ==
    LET cached == cache[ticker] IN
    IF ~cached.has THEN TRUE
    ELSE
        LET hoursSinceUpdate == now - cached.timestamp
            currentHour == now % DayMinutes
            later == {k \in DOMAIN UPDATE_TIMES : UPDATE_TIMES[k] > currentHour}
            nextUpdate == IF later # {} THEN UPDATE_TIMES[Min(later)] ELSE UPDATE_TIMES[1]
            hoursUntil == IF nextUpdate > currentHour
                          THEN nextUpdate - currentHour
                          ELSE (DayMinutes - currentHour) + nextUpdate
        IN  hoursSinceUpdate > StaleMinutes \/ hoursUntil < WindowMinutes

\* getCachedOptionsChain, up to "Fetch fresh data": is the cached chain returned?
ServedFromCache(ticker, forceRefresh) ==
    \/ ~forceRefresh /\ usingMockData[ticker] /\ cache[ticker].has
    \/ ~forceRefresh /\ cache[ticker].has /\ ~shouldRefresh(ticker)

-----------------------------------------------------------------------------
(* ProviderManager.fetchOptionsChain *)

\* a variant that always starts at the first provider
RotationFromFirst(i) == providers[(i % Len(providers)) + 1]

\* the provider the equity loop picks at iteration i
RotationProvider(i) ==
    providers[((currentProviderIndex + i) % Len(providers)) + 1]

\* a variant of the equity loop that gives up before the last provider
EquityLoopStopsEarly(i) == i < Len(providers) - 1

\* the equity loop `for (let i = 0; i < this.providers.length; i++)`
EquityLoopContinues(i) == i < Len(providers)

\* a variant of the crypto loop that stops at the first provider that succeeds
CryptoLoopUntilSuccess(i, ok) == i < Len(cryptoProviders) /\ ~ok

\* the crypto loop `for (const provider of this.cryptoProviders)`;
\* i providers have settled, the last of them with success ok
CryptoLoopContinues(i, ok) == i < Len(cryptoProviders)

\* `if (results.length > 0)`
HasResults(results) == Len(results) > 0

\* fetchOptionsChain returns chain to getCachedOptionsChain: its locals are gone
Returned(q, chain) ==
    [q EXCEPT !.pc = "store", !.resp = NoResponse, !.i = 0, !.cur = "none",
              !.invoked = <<>>, !.results = <<>>, !.data = chain]

\* the call of providerManager.fetchOptionsChain, up to its first provider call
EnterCascade(ticker, forceRefresh) ==
    LET base == [IdleReq EXCEPT !.ticker = ticker, !.force = forceRefresh,
                                !.started = now] IN
    IF isCryptoTicker(ticker) THEN
        [base EXCEPT !.pc = "await", !.i = 1, !.cur = cryptoProviders[1],
                     !.invoked = <<cryptoProviders[1]>>]
    ELSE IF authFailureDetected THEN Returned(base, generateMockData(ticker))
    ELSE IF Len(providers) = 0 THEN Returned(base, generateMockData(ticker))
    ELSE [base EXCEPT !.pc = "await", !.i = 0, !.cur = RotationProvider(0),
                      !.invoked = <<RotationProvider(0)>>]

\* requests take the lowest free slot
FreeSlot(r) == req[r].pc = "idle" /\ \A q \in Requests : q < r => req[q].pc # "idle"

\* getCachedOptionsChain(ticker, forceRefresh), up to its first await or return
Start(r, ticker, forceRefresh) ==
    /\ FreeSlot(r)
    /\ req' = [req EXCEPT ![r] =
            IF ServedFromCache(ticker, forceRefresh)
            THEN [IdleReq EXCEPT !.pc = "done", !.ticker = ticker,
                                 !.force = forceRefresh,
                                 !.data = cache[ticker].data, !.hit = TRUE]
            ELSE EnterCascade(ticker, forceRefresh)]
    /\ authTripped' = (authTripped /\ ~forceRefresh)
    /\ UNCHANGED <<now, ticks, cache, usingMockData, providers, currentProviderIndex,
                   hasWarnedAboutAuthFailure, authFailureDetected, calc>>

\* the equity loop body after `await provider.fetchOptionsChain(ticker)` has
\* settled with resp: success, or the catch block and the loop's next turn
EquityStep(r, resp) ==
    LET q == req[r]
        res == AdapterFetch(q.cur, q.ticker, resp)
        errorMessage == IF res.ok THEN EmptyChainMessage(q.cur, q.ticker) ELSE res.msg
    IN
    /\ ~isCryptoTicker(q.ticker)
    /\ resp \in EquityResponses(q.cur)
    /\ IF res.ok /\ res.n > 0 THEN
            /\ authFailureDetected' = FALSE
            /\ hasWarnedAboutAuthFailure' = FALSE
            /\ currentProviderIndex' = (currentProviderIndex + 1) % Len(providers)
            /\ req' = [req EXCEPT ![r] = Returned(q, ProviderChain(q.cur, res.n))]
            /\ UNCHANGED authTripped
       ELSE IF IsAuthError(errorMessage) THEN
            /\ authFailureDetected' = TRUE
            /\ hasWarnedAboutAuthFailure' = TRUE
            /\ authTripped' = TRUE
            /\ req' = [req EXCEPT ![r] = Returned(q, generateMockData(q.ticker))]
            /\ UNCHANGED currentProviderIndex
       ELSE
            /\ req' = [req EXCEPT ![r] =
                    IF EquityLoopContinues(q.i + 1)
                    THEN [q EXCEPT !.pc = "await", !.resp = NoResponse, !.i = q.i + 1,
                                   !.cur = RotationProvider(q.i + 1),
                                   !.invoked = Append(q.invoked, RotationProvider(q.i + 1))]
                    ELSE Returned(q, generateMockData(q.ticker))]
            /\ UNCHANGED <<currentProviderIndex, hasWarnedAboutAuthFailure,
                           authFailureDetected, authTripped>>
    /\ UNCHANGED <<now, ticks, cache, usingMockData, providers, calc>>

\* the crypto loop body after `await provider.fetchOptionsChain(normalizedTicker)`
\* has settled with resp, and what follows the loop's end
CryptoStep(r, resp) ==
    LET q == req[r]
        res == CryptoFetch(q.cur, q.ticker, resp)
        results == IF res.ok THEN Append(q.results, ProviderChain(q.cur, res.n))
                   ELSE q.results
    IN
    /\ isCryptoTicker(q.ticker)
    /\ resp \in CryptoResponses
    /\ IF CryptoLoopContinues(q.i, res.ok) THEN
            /\ req' = [req EXCEPT ![r] =
                    [q EXCEPT !.pc = "await", !.resp = NoResponse,
                              !.results = results, !.i = q.i + 1,
                              !.cur = cryptoProviders[q.i + 1],
                              !.invoked = Append(q.invoked, cryptoProviders[q.i + 1])]]
            /\ UNCHANGED authFailureDetected
       ELSE IF HasResults(results) THEN
            /\ authFailureDetected' = FALSE
            /\ req' = [req EXCEPT ![r] = Returned(q, MergedChain(results))]
       ELSE
            /\ req' = [req EXCEPT ![r] = Returned(q, generateMockData(q.ticker))]
            /\ UNCHANGED authFailureDetected
    /\ UNCHANGED <<now, ticks, cache, usingMockData, providers, currentProviderIndex,
                   hasWarnedAboutAuthFailure, authTripped, calc>>

\* a provider call settles and the cascade goes on at once
RespondEquity(r, resp) == req[r].pc = "await" /\ EquityStep(r, resp)

RespondCrypto(r, resp) == req[r].pc = "await" /\ CryptoStep(r, resp)

\* the same in two steps: the awaited provider call settles (the vendor answered,
\* or the transport failed) ...
Settle(r, resp) ==
    /\ req[r].pc = "await"
    /\ resp \in (IF isCryptoTicker(req[r].ticker) THEN CryptoResponses
                 ELSE EquityResponses(req[r].cur))
    /\ req' = [req EXCEPT ![r].pc = "settled", ![r].resp = resp]
    /\ UNCHANGED <<now, ticks, cache, usingMockData, providers, currentProviderIndex,
                   hasWarnedAboutAuthFailure, authFailureDetected, authTripped, calc>>

\* ... and the cascade resumes with what it settled with
HandleEquity(r) == req[r].pc = "settled" /\ EquityStep(r, req[r].resp)

HandleCrypto(r) == req[r].pc = "settled" /\ CryptoStep(r, req[r].resp)

\* the awaited provider call never settles (the vendor accepts the request and
\* never completes its answer): no fetch of the adapters carries a timeout or an
\* abort signal, and the cascade sets none around the call
Hang(r) ==
    /\ req[r].pc = "await"
    /\ req' = [req EXCEPT ![r].pc = "hung"]
    /\ UNCHANGED <<now, ticks, cache, usingMockData, providers, currentProviderIndex,
                   hasWarnedAboutAuthFailure, authFailureDetected, authTripped, calc>>

\* getCachedOptionsChain after `await providerManager.fetchOptionsChain(...)`
Store(r) ==
    LET q == req[r] IN
    /\ q.pc = "store"
    /\ usingMockData' = IF q.force THEN [usingMockData EXCEPT ![q.ticker] = FALSE]
                        ELSE usingMockData
    /\ cache' = [cache EXCEPT ![q.ticker] =
                    [has |-> TRUE, data |-> q.data, timestamp |-> now,
                     fetched |-> q.started]]
    /\ req' = [req EXCEPT ![r].pc = "done"]
    /\ UNCHANGED <<now, ticks, providers, currentProviderIndex,
                   hasWarnedAboutAuthFailure, authFailureDetected, authTripped, calc>>

\* the route answers the caller with the chain
Return(r) ==
    /\ req[r].pc = "done"
    /\ req' = [req EXCEPT ![r] = IdleReq]
    /\ UNCHANGED <<now, ticks, cache, usingMockData, providers, currentProviderIndex,
                   hasWarnedAboutAuthFailure, authFailureDetected, authTripped, calc>>

clearCache(ticker) ==
    /\ cache[ticker].has
    /\ cache' = [cache EXCEPT ![ticker] = NoEntry]
    /\ UNCHANGED <<now, ticks, usingMockData, providers, currentProviderIndex,
                   hasWarnedAboutAuthFailure, authFailureDetected, req, authTripped, calc>>

clearAllCache ==
    /\ \E t \in Tickers : cache[t].has
    /\ cache' = [t \in Tickers |-> NoEntry]
    /\ UNCHANGED <<now, ticks, usingMockData, providers, currentProviderIndex,
                   hasWarnedAboutAuthFailure, authFailureDetected, req, authTripped, calc>>

\* the wall clock advances
Tick(d) ==
    /\ ticks < MaxTicks
    /\ now' = now + d
    /\ ticks' = ticks + 1
    /\ UNCHANGED <<cache, usingMockData, providers, currentProviderIndex,
                   hasWarnedAboutAuthFailure, authFailureDetected, req, authTripped, calc>>

-----------------------------------------------------------------------------
(* Specifications *)

AllResponses ==
    CryptoResponses \cup EquityResponses("Polygon.io") \cup EquityResponses("MarketData.app")

NoneInFlight == \A r \in Requests : req[r].pc = "idle"

\* a call made while no other request is in flight
StartAlone(ticker, forceRefresh) == NoneInFlight /\ Start(1, ticker, forceRefresh)

\* GET /api/options/<ticker>?live=true while no other request is in flight:
\* forceRefresh = refresh || live, and live is echoed in the response
StartLive(ticker) ==
    /\ NoneInFlight
    /\ req' = [req EXCEPT ![1] = [EnterCascade(ticker, TRUE) EXCEPT !.live = TRUE]]
    /\ authTripped' = FALSE
    /\ UNCHANGED <<now, ticks, cache, usingMockData, providers, currentProviderIndex,
                   hasWarnedAboutAuthFailure, authFailureDetected, calc>>

\* the body of the 200 response the route builds after getCachedOptionsChain
\* has returned (no usingMockData property is set on this path)
RouteResponse(q) ==
    [success |-> TRUE, data |-> q.data, live |-> q.live, usingMockData |-> FALSE]

\* overlapping requests, the clock standing still
Next ==
    \/ \E r \in Requests, t \in Tickers, f \in BOOLEAN : Start(r, t, f)
    \/ \E r \in Requests, resp \in AllResponses : RespondEquity(r, resp)
    \/ \E r \in Requests, resp \in AllResponses : RespondCrypto(r, resp)
    \/ \E r \in Requests : Store(r)
    \/ \E r \in Requests : Return(r)
    \/ \E t \in Tickers : clearCache(t)
    \/ clearAllCache

Spec == Init /\ [][Next]_vars

\* one equity request at a time, the clock running
NextClock ==
    \/ \E f \in BOOLEAN : StartAlone("TSLA", f)
    \/ \E r \in Requests, resp \in AllResponses : RespondEquity(r, resp)
    \/ \E r \in Requests : Store(r)
    \/ \E r \in Requests : Return(r)
    \/ clearCache("TSLA")
    \/ \E d \in TickSteps : Tick(d)

SpecClock == InitClock /\ [][NextClock]_vars

\* overlapping forced refreshes of an equity ticker, the clock running
NextOverlap ==
    \/ \E r \in Requests : Start(r, "TSLA", TRUE)
    \/ \E r \in Requests, resp \in AllResponses : RespondEquity(r, resp)
    \/ \E r \in Requests : Store(r)
    \/ \E r \in Requests : Return(r)
    \/ Tick(1)

SpecOverlap == Init /\ [][NextOverlap]_vars

\* one request at a time, every provider call seen to settle or to hang;
\* the event loop runs every continuation that is ready
NextFair ==
    \/ \E t \in Tickers, f \in BOOLEAN : StartAlone(t, f)
    \/ \E t \in Tickers : StartLive(t)
    \/ \E r \in Requests, resp \in AllResponses : Settle(r, resp)
    \/ \E r \in Requests : Hang(r)
    \/ \E r \in Requests : HandleEquity(r)
    \/ \E r \in Requests : HandleCrypto(r)
    \/ \E r \in Requests : Store(r)
    \/ \E r \in Requests : Return(r)
    \/ \E t \in Tickers : clearCache(t)

Ready ==
    \/ \E r \in Requests : HandleEquity(r)
    \/ \E r \in Requests : HandleCrypto(r)
    \/ \E r \in Requests : Store(r)
    \/ \E r \in Requests : Return(r)

\* a provider call that can settle does
Settles == \E r \in Requests, resp \in AllResponses : Settle(r, resp)

SpecFair == Init /\ [][NextFair]_vars /\ WF_vars(Ready) /\ WF_vars(Settles)

-----------------------------------------------------------------------------
(* Properties *)

\* the request in slot r takes a step
Acts(r) == req'[r] # req[r]

\* slot r goes from free to a call of getCachedOptionsChain
Starts(r) == req[r].pc = "idle" /\ req'[r].pc # "idle"

\* the call that starts in slot r goes to the cascade (it is not served from the cache)
EntersCascade(r) == Starts(r) /\ ~req'[r].hit

\* the ticker of the request that acts in slot r
ActingTicker(r) == IF req[r].pc = "idle" THEN req'[r].ticker ELSE req[r].ticker

\* slot r holds the synthetic chain the cascade has just returned
GotSynthetic(q) == q.pc = "store" /\ q.data.kind = "synthetic"

(* C1: with two equity providers, when the first provider tried raises an  *)
(* auth-class error the second is not invoked, the chain returned is       *)
(* synthetic and the sticky flag is set; and every equity call of the      *)
(* cascade made after that (no provider call having succeeded and no       *)
(* refresh having been forced in between) returns a synthetic chain        *)
(* without invoking a provider.                                            *)
C1_StickyAuthFailure ==
    [][\A r \in Requests :
        /\ ( /\ Acts(r) /\ req[r].pc = "await" /\ ~isCryptoTicker(req[r].ticker)
             /\ Len(providers) = 2 /\ req[r].i = 0
             /\ ~authFailureDetected /\ authFailureDetected' )
           => (GotSynthetic(req'[r]) /\ Len(req[r].invoked) = 1)
        /\ ( /\ EntersCascade(r) /\ ~isCryptoTicker(req'[r].ticker)
             /\ Len(providers) = 2 /\ ~req'[r].force
             /\ authTripped /\ hasWarnedAboutAuthFailure )
           => GotSynthetic(req'[r])
      ]_vars

(* C2: for a ticker with a cached entry, at most one non-forced request is *)
(* inside the provider cascade at any moment.                              *)
C2_SingleFlight ==
    \A t \in Tickers :
        cache[t].has =>
            Cardinality({r \in Requests :
                req[r].ticker = t /\ ~req[r].force /\ req[r].pc = "await"}) <= 1

\* the refresh rule as specified, from the clock and the cached timestamp alone:
\* the minutes from now to the next scheduled time that is still to come
MinutesToNextUpdate ==
    LET m == now % DayMinutes
        waits == { ((UPDATE_TIMES[k] - m - 1 + DayMinutes) % DayMinutes) + 1 :
                        k \in DOMAIN UPDATE_TIMES }
    IN  Min(waits)

RefreshRequired(t) ==
    \/ ~cache[t].has
    \/ now - cache[t].timestamp > StaleMinutes
    \/ MinutesToNextUpdate < WindowMinutes

(* C3: a non-forced call for a ticker whose synthetic flag is not set goes *)
(* to the cascade if and only if there is no entry, or the entry is more   *)
(* than 8 hours old, or the next scheduled time (09:30, 12:00, 16:00,      *)
(* wrapping to 09:30) is less than 30 minutes away; otherwise it returns   *)
(* the cached chain.                                                       *)
C3_RefreshDecision ==
    [][\A r \in Requests :
        (Starts(r) /\ ~req'[r].force /\ ~usingMockData[req'[r].ticker]) =>
            /\ EntersCascade(r) <=> RefreshRequired(req'[r].ticker)
            /\ req'[r].hit =>
                  (req'[r].pc = "done" /\ req'[r].data = cache[req'[r].ticker].data)
      ]_vars

\* a non-forced request is in the cascade although its ticker has an entry that
\* is at most 8 hours old: it was refreshed for the schedule window alone
C3_Witness ==
    \E r \in Requests :
        /\ req[r].pc = "await" /\ ~req[r].force
        /\ cache[req[r].ticker].has
        /\ now - cache[req[r].ticker].timestamp <= StaleMinutes
        /\ ticks = 2

(* C4: a forced call is never served from the cache, and when it invokes   *)
(* the cascade the ticker's cache entry has already been removed.          *)
C4_ForcedClearsFirst ==
    [][\A r \in Requests :
        (Starts(r) /\ req'[r].force) =>
            (~req'[r].hit /\ ~cache'[req'[r].ticker].has)
      ]_vars

(* C5: while a ticker's synthetic flag is set and it has a cached entry, a *)
(* non-forced call returns the cached chain without the cascade; the flag  *)
(* is cleared only by the completion of a forced refresh of that ticker.   *)
C5_SyntheticFlag ==
    [][\A r \in Requests :
        /\ ( /\ Starts(r) /\ ~req'[r].force
             /\ usingMockData[req'[r].ticker] /\ cache[req'[r].ticker].has )
           => (req'[r].hit /\ req'[r].data = cache[req'[r].ticker].data)
        /\ \A t \in Tickers :
             (usingMockData[t] /\ ~usingMockData'[t]) =>
                \E q \in Requests :
                    req[q].pc = "store" /\ req[q].force /\ req[q].ticker = t /\ Acts(q)
      ]_vars

\* the flag is never set: its one assignment is in a catch block that no
\* outcome of the cascade reaches
C5_FlagNeverSet == \A t \in Tickers : ~usingMockData[t]

\* the cascade resumes in slot r after the provider call it awaited has settled
Resumes(r) == req[r].pc = "settled" /\ Acts(r)

\* the vendor rejected the request with HTTP 401 or 403
Rejected(resp) == resp.status \in {401, 403}

\* the vendor answered with contracts that survive the expiration filter
Delivered(resp) == resp.status = 200 /\ resp.body = "some"

Range(seq) == {seq[k] : k \in DOMAIN seq}

C7_AuthClassification ==
    [][\A r \in Requests :
        (Resumes(r) /\ ~isCryptoTicker(req[r].ticker)) =>
            IF Rejected(req[r].resp)
            THEN authFailureDetected' /\ GotSynthetic(req'[r])
            ELSE ~authFailureDetected'
      ]_vars

(* C8: a crypto request, whatever its outcome, leaves the equity sticky    *)
(* flag and the equity rotation index as they were, and the providers it   *)
(* queries are the crypto providers in their order, whatever the equity    *)
(* state is.                                                               *)
C8_PerClassState ==
    [][\A r \in Requests :
        (Acts(r) /\ isCryptoTicker(ActingTicker(r))) =>
            /\ authFailureDetected' = authFailureDetected
            /\ currentProviderIndex' = currentProviderIndex
            /\ req'[r].pc = "await" =>
                  req'[r].invoked = SubSeq(cryptoProviders, 1, Len(req'[r].invoked))
      ]_vars

(* C9: every request that is waiting for a provider eventually gets a      *)
(* chain back from the cascade.                                            *)
C9_EventuallyReturns ==
    \A r \in Requests : (req[r].pc = "await") ~> (req[r].pc = "store")

(* C10: a crypto request invokes Deribit, OKX and Bybit once each, in      *)
(* turn, whether the earlier calls threw or returned a chain; no call that *)
(* throws fails the request; the cascade returns only after the last of    *)
(* the three calls has settled, with the merge of the chains returned if   *)
(* there is one and with a synthetic chain if every call threw.            *)
C10_CryptoQueriesAll ==
    [][\A r \in Requests :
        LET q == req[r]
            q2 == req'[r]
            returned == Len(q.results) + (IF q.resp.status = 200 THEN 1 ELSE 0)
        IN
        /\ (EntersCascade(r) /\ isCryptoTicker(q2.ticker))
           => (q2.pc = "await" /\ q2.invoked = <<cryptoProviders[1]>>)
        /\ (Resumes(r) /\ isCryptoTicker(q.ticker))
           => IF q.invoked # cryptoProviders
              THEN /\ q2.pc = "await"
                   /\ q2.invoked = SubSeq(cryptoProviders, 1, Len(q.invoked) + 1)
              ELSE /\ q2.pc = "store"
                   /\ IF returned > 0 THEN q2.data.kind = "merged"
                      ELSE q2.data.kind = "synthetic"
      ]_vars

\* the third crypto provider is being queried after one of the first two
\* returned a chain and the other threw
C10_Witness ==
    \E r \in Requests :
        /\ req[r].pc = "await" /\ isCryptoTicker(req[r].ticker)
        /\ req[r].invoked = cryptoProviders /\ Len(req[r].results) = 1

-----------------------------------------------------------------------------
(* Pure functions.  A behaviour of the specifications below is one call:   *)
(* the arguments are drawn first, then the function runs.  The variables   *)
(* of the requests keep the values they have after module load.            *)

world == <<now, ticks, cache, usingMockData, providers, currentProviderIndex,
           hasWarnedAboutAuthFailure, authFailureDetected, req, authTripped>>

\* module load, no request made
Loaded ==
    /\ now = 0
    /\ ticks = 0
    /\ cache = [t \in Tickers |-> NoEntry]
    /\ usingMockData = [t \in Tickers |-> FALSE]
    /\ providers = <<>>
    /\ currentProviderIndex = 0
    /\ hasWarnedAboutAuthFailure = FALSE
    /\ authFailureDetected = FALSE
    /\ req = [r \in Requests |-> IdleReq]
    /\ authTripped = FALSE

\* all sequences over S of length at most n
SeqsUpTo(S, n) == UNION {[1..k -> S] : k \in 0..n}

RECURSIVE SumOI(_)
SumOI(list) ==
    IF list = <<>> THEN 0 ELSE Head(list).openInterest + SumOI(Tail(list))

RECURSIVE Concat(_)
Concat(lists) == IF lists = <<>> THEN <<>> ELSE Head(lists) \o Concat(Tail(lists))

-----------------------------------------------------------------------------
(* ProviderManager.fetchOptionsChain, crypto branch: the aggregation of    *)
(* the results the providers returned.                                     *)

MaxContracts == 3   \* contracts in the three providers' chains, all together

OptionContract(strike, expiration, openInterest, type) ==
    [strike |-> strike, expiration |-> expiration,
     openInterest |-> openInterest, type |-> type]

\* the contracts a crypto provider may list: two call series of one strike, one
\* of them with two sizes of open interest, and one put series with two sizes
ContractSamples ==
    { OptionContract(90, 7, 1, "call"), OptionContract(90, 7, 2, "call"),
      OptionContract(90, 30, 1, "call"),
      OptionContract(100, 7, 1, "put"), OptionContract(100, 7, 2, "put") }

\* the prices the providers quote (an adapter throws when its price is 0)
SpotSamples == {5, 6}

\* `${n}` for a natural number
Digit == <<"0", "1", "2", "3", "4", "5", "6", "7", "8", "9">>

RECURSIVE Decimal(_)
Decimal(n) ==
    IF n < 10 THEN <<Digit[n + 1]>> ELSE Append(Decimal(n \div 10), Digit[(n % 10) + 1])

\* a variant of the key that leaves the expiration out
strikeOnlyKey(c) == Decimal(c.strike)

\* `${call.strike}-${call.expiration}`
mergeKey(c) == Decimal(c.strike) \o <<"-">> \o Decimal(c.expiration)

\* the loop over allCalls (allPuts) filling callsMap (putsMap); a Map keeps its
\* keys in insertion order, so the map is the sequence of its values
RECURSIVE mergeContracts(_, _)
mergeContracts(all, map) ==
    IF all = <<>> THEN map
    ELSE LET c == Head(all)
             at == {k \in DOMAIN map : mergeKey(map[k]) = mergeKey(c)}
         IN  IF at # {}
             THEN mergeContracts(Tail(all),
                    [map EXCEPT ![CHOOSE k \in at : TRUE].openInterest =
                                        @ + c.openInterest])
             ELSE mergeContracts(Tail(all), Append(map, c))

\* a variant that takes the price of the first result
firstSpotPrice(results) == results[1].spotPrice

\* the loop's `if (result.spotPrice > 0) spotPrice = result.spotPrice` and the
\* final `spotPrice || results[0].spotPrice`
RECURSIVE lastPositiveSpot(_, _)
lastPositiveSpot(results, spotPrice) ==
    IF results = <<>> THEN spotPrice
    ELSE lastPositiveSpot(Tail(results),
            IF Head(results).spotPrice > 0 THEN Head(results).spotPrice ELSE spotPrice)

cryptoSpotPrice(results) ==
    LET spotPrice == lastPositiveSpot(results, 0)
    IN  IF spotPrice # 0 THEN spotPrice ELSE results[1].spotPrice

\* the chain returned when results.length > 0
aggregateCrypto(results) ==
    LET allCalls == Concat([k \in DOMAIN results |-> results[k].calls])
        allPuts == Concat([k \in DOMAIN results |-> results[k].puts])
    IN  [spotPrice |-> cryptoSpotPrice(results),
         calls |-> mergeContracts(allCalls, <<>>),
         puts |-> mergeContracts(allPuts, <<>>)]

\* the results of n successful providers, from the contracts listed: each
\* listing is (provider, contract), kept in the order listed
Listing(n) == (1..n) \X ContractSamples

RECURSIVE ListedBy(_, _, _)
ListedBy(listings, p, type) ==
    IF listings = <<>> THEN <<>>
    ELSE IF Head(listings)[1] = p /\ Head(listings)[2].type = type
         THEN <<Head(listings)[2]>> \o ListedBy(Tail(listings), p, type)
         ELSE ListedBy(Tail(listings), p, type)

ResultsOf(n, listings, spots) ==
    [p \in 1..n |-> [spotPrice |-> spots[p],
                     calls |-> ListedBy(listings, p, "call"),
                     puts |-> ListedBy(listings, p, "put")]]

NoChain == [spotPrice |-> 0, calls |-> <<>>, puts |-> <<>>]

InitMerge ==
    /\ Loaded
    /\ \E n \in 1..Len(cryptoProviders) :
       \E listings \in SeqsUpTo(Listing(n), MaxContracts), spots \in [1..n -> SpotSamples] :
            calc = [op |-> "merge", results |-> ResultsOf(n, listings, spots),
                    done |-> FALSE, out |-> NoChain]

Aggregate ==
    /\ calc.op = "merge" /\ ~calc.done
    /\ calc' = [calc EXCEPT !.done = TRUE, !.out = aggregateCrypto(calc.results)]
    /\ UNCHANGED world

NextMerge == Aggregate

SpecMerge == InitMerge /\ [][NextMerge]_vars

\* the contracts of one side in all the results, and those with the key of c
AllOf(results, side) ==
    Concat([k \in DOMAIN results |-> IF side = "call" THEN results[k].calls
                                     ELSE results[k].puts])

SameSeries(list, c) ==
    SelectSeq(list, LAMBDA d : d.strike = c.strike /\ d.expiration = c.expiration)

(* C11: in the chain a crypto request returns, calls and puts taken        *)
(* separately, no two contracts share (strike, expiration days); every     *)
(* series of the results is there, with an open interest that is the sum   *)
(* of the open interest of that series over all the results; so the total  *)
(* open interest of each side is conserved.                                *)
C11_MergeSumsOpenInterest ==
    (calc.op = "merge" /\ calc.done) =>
        \A side \in {"call", "put"} :
            LET merged == IF side = "call" THEN calc.out.calls ELSE calc.out.puts
                all == AllOf(calc.results, side)
            IN  /\ \A i, j \in DOMAIN merged :
                      ( /\ merged[i].strike = merged[j].strike
                        /\ merged[i].expiration = merged[j].expiration ) => i = j
                /\ \A k \in DOMAIN all : SameSeries(merged, all[k]) # <<>>
                /\ \A i \in DOMAIN merged :
                      merged[i].openInterest = SumOI(SameSeries(all, merged[i]))
                /\ SumOI(merged) = SumOI(all)

\* two providers listed the same call series, a third series is there too, and
\* the aggregation has run
C11_Witness ==
    /\ calc.op = "merge" /\ calc.done
    /\ Len(calc.results) >= 2
    /\ \E c \in DOMAIN calc.results[1].calls, d \in DOMAIN calc.results[2].calls :
          mergeKey(calc.results[1].calls[c]) = mergeKey(calc.results[2].calls[d])
    /\ Len(calc.out.calls) = 2

(* C12: the spot price of the chain a crypto request returns is the price  *)
(* of the last provider, in query order, that succeeded with a nonzero     *)
(* price.                                                                  *)
C12_LastNonzeroSpot ==
    (calc.op = "merge" /\ calc.done) =>
        LET priced == {k \in DOMAIN calc.results : calc.results[k].spotPrice # 0}
        IN  priced # {} =>
                calc.out.spotPrice =
                    calc.results[CHOOSE k \in priced : \A j \in priced : j <= k].spotPrice

\* three providers succeeded, the last with a price other than the first's
C12_Witness ==
    /\ calc.op = "merge" /\ calc.done
    /\ Len(calc.results) = 3
    /\ calc.results[1].spotPrice # calc.results[3].spotPrice
    /\ calc.out.spotPrice = calc.results[3].spotPrice

C14_SyntheticIsFlagged ==
    \A r \in Requests :
        (req[r].pc = "done" /\ req[r].data.kind = "synthetic") =>
            /\ usingMockData[req[r].ticker] \/ RouteResponse(req[r]).usingMockData
            /\ ~RouteResponse(req[r]).live

\* the same for the live mark alone
C14_SyntheticNeverLive ==
    \A r \in Requests :
        (req[r].pc = "done" /\ req[r].data.kind = "synthetic") =>
            ~RouteResponse(req[r]).live

-----------------------------------------------------------------------------
(* options-api: generateMockData, with the contracts it generates.  A      *)
(* price is a fraction num/den (190.53 is 19053/100); the float arithmetic *)
(* of the code gives the same strikes as the exact arithmetic here for     *)
(* every price of the table and for the default.  Math.random() is drawn   *)
(* once per call, in tenths: it sizes the open interest only.              *)

MockTickers == {"TSLA", "BTC", "AAPL", "NVDA", "SPY", "SOL", "ETH", "XYZ"}

RandomSamples == 0..9

\* mockSpotPrices[normalizedTicker] || 100
mockSpotPrice(ticker) ==
    CASE ticker = "TSLA" -> [num |-> 420, den |-> 1]
      [] ticker = "BTC" -> [num |-> 95000, den |-> 1]
      [] ticker = "AAPL" -> [num |-> 235, den |-> 1]
      [] ticker = "NVDA" -> [num |-> 19053, den |-> 100]
      [] ticker = "SPY" -> [num |-> 600, den |-> 1]
      [] ticker = "SOL" -> [num |-> 240, den |-> 1]
      [] ticker = "ETH" -> [num |-> 3800, den |-> 1]
      [] OTHER -> [num |-> 100, den |-> 1]

\* const expirations = [7, 14, 21, 30, 45, 60, 90]
mockExpirations == <<7, 14, 21, 30, 45, 60, 90>>

\* Math.floor((strikeRange * 2) / strikeStep), with strikeRange = spotPrice * 0.3
\* and strikeStep = spotPrice * 0.02
mockNumStrikes(spot) == (60 * spot.num) \div (2 * spot.num)

\* Math.round((spotPrice - strikeRange + i * strikeStep) / 5) * 5
mockStrike(spot, i) ==
    5 * ((spot.num * (70 + 2 * i) + 250 * spot.den) \div (500 * spot.den))

\* Math.floor(baseOI * oiMultiplier * (0.5 + Math.random()))
mockOpenInterest(spot, strike, rand) ==
    LET gap == strike * spot.den - spot.num
        distance == IF gap < 0 THEN -gap ELSE gap
    IN  IF 10 * (spot.num - 2 * distance) > spot.num
        THEN (100 * (spot.num - 2 * distance) * (5 + rand)) \div spot.num
        ELSE 10 * (5 + rand)

\* the inner loop for one expiration, from iteration i on
RECURSIVE mockStrikesLoop(_, _, _, _, _)
mockStrikesLoop(spot, expiration, type, rand, i) ==
    IF i >= mockNumStrikes(spot) THEN <<>>
    ELSE LET strike == mockStrike(spot, i)
             openInterest == mockOpenInterest(spot, strike, rand)
             rest == mockStrikesLoop(spot, expiration, type, rand, i + 1)
         IN  IF strike <= 0 \/ openInterest <= 0 THEN rest
             ELSE <<OptionContract(strike, expiration, openInterest, type)>> \o rest

generateMockContracts(ticker, rand) ==
    LET spot == mockSpotPrice(ticker) IN
    [spotPrice |-> spot,
     calls |-> Concat([e \in DOMAIN mockExpirations |->
                  mockStrikesLoop(spot, mockExpirations[e], "call", rand, 0)]),
     puts |-> Concat([e \in DOMAIN mockExpirations |->
                  mockStrikesLoop(spot, mockExpirations[e], "put", rand, 0)])]

InitMock ==
    /\ Loaded
    /\ \E ticker \in MockTickers, rand \in RandomSamples :
            calc = [op |-> "mock", ticker |-> ticker, rand |-> rand,
                    done |-> FALSE, out |-> NoChain]

Generate ==
    /\ calc.op = "mock" /\ ~calc.done
    /\ calc' = [calc EXCEPT !.done = TRUE,
                            !.out = generateMockContracts(calc.ticker, calc.rand)]
    /\ UNCHANGED world

NextMock == Generate

SpecMock == InitMock /\ [][NextMock]_vars

\* no two contracts of the list share (strike, expiration, type)
Unique(list) ==
    \A i, j \in DOMAIN list :
        ( /\ list[i].strike = list[j].strike
          /\ list[i].expiration = list[j].expiration
          /\ list[i].type = list[j].type ) => i = j

(* C15: a chain the cascade returns holds no two contracts with the same   *)
(* (strike, expiration days, type); here, the chain of the synthetic       *)
(* generator, for the tickers of its price table and for a ticker that     *)
(* gets the default price 100.                                             *)
C15_SyntheticUnique ==
    (calc.op = "mock" /\ calc.done) =>
        Unique(calc.out.calls \o calc.out.puts)

\* the same for the chain the crypto aggregation returns
C15_MergedUnique ==
    (calc.op = "merge" /\ calc.done) =>
        Unique(calc.out.calls \o calc.out.puts)

-----------------------------------------------------------------------------
(* expiration-filter.  A Date is seen through getDate(), getMonth() and    *)
(* getDay() only.  Days are counted from 2025-01-01 (a Wednesday) through  *)
(* 2025 and 2026, neither a leap year.                                     *)

MaxOptions == 2     \* options in the list given to the filter

ExpirationSamples == {0, 1, 30}

DaysOf2025 == 0..364

MonthLengths == <<31, 28, 31, 30, 31, 30, 31, 31, 30, 31, 30, 31>>

RECURSIVE MonthAndDay(_, _)
MonthAndDay(dayOfYear, month) ==
    IF dayOfYear < MonthLengths[month + 1]
    THEN [month |-> month, day |-> dayOfYear + 1]
    ELSE MonthAndDay(dayOfYear - MonthLengths[month + 1], month + 1)

\* the Date n days after 2025-01-01: getDate(), getMonth() (0 = January) and
\* getDay() (0 = Sunday)
DateOf(n) ==
    LET md == MonthAndDay(n % 365, 0)
    IN  [day |-> md.day, month |-> md.month, dayOfWeek |-> (3 + n) % 7]

\* every (getDate(), getMonth(), getDay()) a Date can show
DateViews == [day : 1..31, month : 0..11, dayOfWeek : 0..6]

isMonthlyOrQuarterlyExpiration(expirationDate) ==
    LET day == expirationDate.day
        month == expirationDate.month
        dayOfWeek == expirationDate.dayOfWeek
        isQuarterMonth == month = 2 \/ month = 5 \/ month = 8 \/ month = 11
        isQuarterEnd == isQuarterMonth /\ (dayOfWeek = 5 /\ day >= 25 /\ day <= 31)
        isThirdFriday == day >= 15 /\ day <= 21 /\ dayOfWeek = 5
        isLastFriday == ~isQuarterMonth /\ day >= 22 /\ day <= 28 /\ dayOfWeek = 5
        isMonthlyFriday == ~isQuarterMonth /\ day >= 15 /\ day <= 31 /\ dayOfWeek = 5
    IN  isThirdFriday \/ isLastFriday \/ isMonthlyFriday \/ isQuarterEnd

\* options.filter(...): expirationDate is today moved on by option.expiration days
filterMonthlyQuarterlyOptions(options, today) ==
    SelectSeq(options,
        LAMBDA option : isMonthlyOrQuarterlyExpiration(DateOf(today + option.expiration)))

InitExpiry ==
    /\ Loaded
    /\ \/ \E d \in DateViews :
            calc = [op |-> "isMonthlyOrQuarterly", date |-> d, done |-> FALSE,
                    out |-> FALSE]
       \/ \E today \in DaysOf2025,
             options \in SeqsUpTo([expiration : ExpirationSamples], MaxOptions) :
            calc = [op |-> "filter", today |-> today, options |-> options,
                    done |-> FALSE, out |-> <<>>]

Classify ==
    /\ calc.op = "isMonthlyOrQuarterly" /\ ~calc.done
    /\ calc' = [calc EXCEPT !.done = TRUE,
                            !.out = isMonthlyOrQuarterlyExpiration(calc.date)]
    /\ UNCHANGED world

Filter ==
    /\ calc.op = "filter" /\ ~calc.done
    /\ calc' = [calc EXCEPT !.done = TRUE,
                    !.out = filterMonthlyQuarterlyOptions(calc.options, calc.today)]
    /\ UNCHANGED world

NextExpiry == Classify \/ Filter

SpecExpiry == InitExpiry /\ [][NextExpiry]_vars

\* the rule as specified
StandardExpiration(d) ==
    LET quarterEnd == d.month \in {2, 5, 8, 11} IN
    /\ d.dayOfWeek = 5
    /\ \/ d.day \in 15..21
       \/ d.day \in 22..28 /\ ~quarterEnd
       \/ d.day \in 25..31 /\ quarterEnd

(* C16: isMonthlyOrQuarterlyExpiration is true exactly for a Friday whose  *)
(* day is in 15..21, or in 22..28 outside March, June, September and       *)
(* December, or in 25..31 in one of those months; and the filter keeps     *)
(* exactly the options whose date today + expiration satisfies that rule.  *)
C16_ExpirationRule ==
    /\ (calc.op = "isMonthlyOrQuarterly" /\ calc.done) =>
            (calc.out <=> StandardExpiration(calc.date))
    /\ (calc.op = "filter" /\ calc.done) =>
            calc.out = SelectSeq(calc.options,
                LAMBDA o : StandardExpiration(DateOf(calc.today + o.expiration)))

\* the three dates named: 2025-03-21 and 2025-03-28 are kept, 2025-03-10 is not
C16_NamedDates ==
    /\ isMonthlyOrQuarterlyExpiration(DateOf(79))
    /\ isMonthlyOrQuarterlyExpiration(DateOf(86))
    /\ ~isMonthlyOrQuarterlyExpiration(DateOf(68))
    /\ DateOf(79) = [day |-> 21, month |-> 2, dayOfWeek |-> 5]
    /\ DateOf(68) = [day |-> 10, month |-> 2, dayOfWeek |-> 1]

-----------------------------------------------------------------------------
(* delta-calculator: calculateMaxPain.  Open interest and strikes are      *)
(* integers; the spot price is optional (given = FALSE: the argument is    *)
(* absent).                                                                *)

MaxPainOptions == 3     \* options in a list drawn contract by contract

OptionData(strike, openInterest, type, expiration) ==
    [strike |-> strike, openInterest |-> openInterest, type |-> type,
     expiration |-> expiration]

\* contracts of the expiration asked for (7 days), one of them without open
\* interest, and one contract of another expiration
PainSamples ==
    { OptionData(k, oi, t, 7) : k \in {90, 100, 110}, oi \in {1, 2}, t \in {"call", "put"} }
    \cup { OptionData(110, 0, "put", 7), OptionData(100, 1, "call", 30) }

\* a chain of n strikes 10, 20, ..., with a call and a put at each: the call
\* open interest sits at the a-th strike, the put open interest at the b-th
WideChain(n, a, callOI, b, putOI) ==
    Concat([k \in 1..n |->
        << OptionData(10 * k, IF k = a THEN callOI ELSE 0, "call", 7),
           OptionData(10 * k, IF k = b THEN putOI ELSE 0, "put", 7) >>])

WideStrikeCounts == {7, 8, 9}

NoSpot == [given |-> FALSE, value |-> 0]
SpotChoices == {NoSpot} \cup [given : {TRUE}, value : {0, 25, 50, 100}]

ScaleSamples == {2, 3}

NoResult == [isNull |-> TRUE]

\* Array.from(new Set(...)).sort((a, b) => a - b)
RECURSIVE SortAscending(_)
SortAscending(S) ==
    IF S = {} THEN <<>> ELSE <<Min(S)>> \o SortAscending(S \ {Min(S)})

\* optionsByStrike: the open interest of the calls and of the puts at a strike
optionsByStrike(expirationOptions, strike) ==
    [calls |-> SumOI(SelectSeq(expirationOptions,
                        LAMBDA o : o.strike = strike /\ o.type = "call")),
     puts |-> SumOI(SelectSeq(expirationOptions,
                        LAMBDA o : o.strike = strike /\ o.type # "call"))]

\* a variant that counts a strike's open interest only above one contract
countsAboveOne(oi) == oi > 1

\* `oi.calls > 0`, `oi.puts > 0`
countsForPain(oi) == oi > 0

\* the pain that one strike's contracts add at an expirationPrice
painOfStrike(oi, strike, expirationPrice) ==
    (IF expirationPrice > strike /\ countsForPain(oi.calls)
     THEN (expirationPrice - strike) * oi.calls * 100 ELSE 0)
    + (IF expirationPrice < strike /\ countsForPain(oi.puts)
       THEN (strike - expirationPrice) * oi.puts * 100 ELSE 0)

\* totalPain for one expirationPrice: the loop `for (const strike of strikes)`
RECURSIVE totalPainAt(_, _, _)
totalPainAt(expirationOptions, strikes, expirationPrice) ==
    IF strikes = <<>> THEN 0
    ELSE painOfStrike(optionsByStrike(expirationOptions, Head(strikes)),
                      Head(strikes), expirationPrice)
         + totalPainAt(expirationOptions, Tail(strikes), expirationPrice)

\* a variant that lets a later strike with the same pain win
painNotAbove(totalPain, best) == ~best.finite \/ totalPain <= best.minPain

\* `totalPain < minPain`, minPain being Infinity until a pain is recorded
painBelow(totalPain, best) == ~best.finite \/ totalPain < best.minPain

\* the loop `for (const expirationPrice of strikes)`
RECURSIVE painLoop(_, _, _, _)
painLoop(expirationOptions, allStrikes, strikes, best) ==
    IF strikes = <<>> THEN best
    ELSE LET totalPain == totalPainAt(expirationOptions, allStrikes, Head(strikes))
         IN  painLoop(expirationOptions, allStrikes, Tail(strikes),
                IF painBelow(totalPain, best)
                THEN [finite |-> TRUE, minPain |-> totalPain,
                      maxPainStrike |-> Head(strikes)]
                ELSE best)

\* a variant that asks for 5 strikes (as the comment in the code says)
fiveStrikes(strikes) == Len(strikes) >= 5

\* `strikes.length >= 8`
enoughStrikes(strikes) == Len(strikes) >= 8

calculateMaxPain(options, expirationDays, spotPrice) ==
    LET expirationOptions == SelectSeq(options, LAMBDA o : o.expiration = expirationDays)
        strikeSet == {expirationOptions[k].strike : k \in DOMAIN expirationOptions}
        strikes == SortAscending(strikeSet)
    IN
    IF Len(expirationOptions) = 0 THEN NoResult
    ELSE IF Len(strikes) = 0 THEN NoResult
    ELSE
        LET best == painLoop(expirationOptions, strikes, strikes,
                        [finite |-> FALSE, minPain |-> 0, maxPainStrike |-> strikes[1]])
            totalOI == SumOI(expirationOptions)
            isAtEdge == best.maxPainStrike = strikes[1]
                        \/ best.maxPainStrike = strikes[Len(strikes)]
            reliable == totalOI > 0 /\ enoughStrikes(strikes) /\ ~isAtEdge
            gap == best.maxPainStrike - spotPrice.value
            distance == IF gap < 0 THEN -gap ELSE gap
            \* Math.abs(maxPainStrike - spotPrice) / spotPrice > 0.4
            tooFar == 10 * distance > 4 * spotPrice.value
        IN  [isNull |-> FALSE,
             maxPainStrike |-> best.maxPainStrike,
             maxPainValue |-> best.minPain,
             expirationDays |-> expirationDays,
             totalOpenInterest |-> totalOI,
             strikeCount |-> Len(strikes),
             isReliable |->
                IF reliable /\ spotPrice.given /\ spotPrice.value # 0
                   /\ spotPrice.value > 0
                THEN ~tooFar ELSE reliable]

\* every open interest multiplied by c
Scaled(options, c) ==
    [k \in DOMAIN options |-> [options[k] EXCEPT !.openInterest = @ * c]]

\* a chain with a call and a put at each expiration of a set, the latest
\* expiration first
RECURSIVE ExpiryChain(_)
ExpiryChain(expirations) ==
    IF expirations = {} THEN <<>>
    ELSE LET last == CHOOSE e \in expirations : \A other \in expirations : other <= e
         IN  << OptionData(100, 1, "call", last), OptionData(110, 2, "put", last) >>
             \o ExpiryChain(expirations \ {last})

calculateNextExpirationMaxPain(options, spotPrice) ==
    IF Len(options) = 0 THEN NoResult
    ELSE calculateMaxPain(options,
            Min({options[k].expiration : k \in DOMAIN options}), spotPrice)

\* elapsed: the milliseconds that pass between `twoMonthsFromNow = new Date()`
\* and the `new Date()` of the filter callback; with whole days of expiration
\* `expirationDate <= twoMonthsFromNow` compares (exp, elapsed) with (60, 0)
calculateMaxPainForAllExpirations(options, spotPrice, elapsed) ==
    IF Len(options) = 0 THEN <<>>
    ELSE LET expirations ==
                SortAscending({e \in {options[k].expiration : k \in DOMAIN options} : e > 0})
             within == SelectSeq(expirations,
                            LAMBDA exp : exp < 60 \/ (exp = 60 /\ elapsed <= 0))
             relevantExpirations == SubSeq(within, 1, Min({4, Len(within)}))
             results == [i \in DOMAIN relevantExpirations |->
                            calculateMaxPain(options, relevantExpirations[i], spotPrice)]
         IN  SelectSeq(results, LAMBDA maxPain : ~maxPain.isNull)

InitMaxPain ==
    /\ Loaded
    /\ \/ \E expirations \in SUBSET {0, 7, 14, 30, 45, 60, 61}, elapsed \in {0, 1} :
            calc = [op |-> "expirations", options |-> ExpiryChain(expirations),
                    spotPrice |-> NoSpot, elapsed |-> elapsed, done |-> FALSE,
                    all |-> <<>>, next |-> NoResult]
       \/ \E c \in ScaleSamples :
          \/ \E options \in SeqsUpTo(PainSamples, MaxPainOptions), days \in {7, 14} :
               calc = [op |-> "maxPain", options |-> options, expirationDays |-> days,
                       spotPrice |-> NoSpot, factor |-> c, done |-> FALSE,
                       out |-> NoResult, scaled |-> NoResult]
          \/ \E n \in WideStrikeCounts :
             \E a, b \in 1..n, callOI, putOI \in {0, 2}, spot \in SpotChoices :
               calc = [op |-> "maxPain", options |-> WideChain(n, a, callOI, b, putOI),
                       expirationDays |-> 7, spotPrice |-> spot, factor |-> c,
                       done |-> FALSE, out |-> NoResult, scaled |-> NoResult]

\* calculateMaxPainForAllExpirations and calculateNextExpirationMaxPain on
\* the same chain
ByExpiration ==
    /\ calc.op = "expirations" /\ ~calc.done
    /\ calc' = [calc EXCEPT
            !.done = TRUE,
            !.all = calculateMaxPainForAllExpirations(calc.options, calc.spotPrice,
                                                      calc.elapsed),
            !.next = calculateNextExpirationMaxPain(calc.options, calc.spotPrice)]
    /\ UNCHANGED world

\* calculateMaxPain on the chain, and on the chain with its open interest scaled
MaxPain ==
    /\ calc.op = "maxPain" /\ ~calc.done
    /\ calc' = [calc EXCEPT
            !.done = TRUE,
            !.out = calculateMaxPain(calc.options, calc.expirationDays, calc.spotPrice),
            !.scaled = calculateMaxPain(Scaled(calc.options, calc.factor),
                                        calc.expirationDays, calc.spotPrice)]
    /\ UNCHANGED world

NextMaxPain == MaxPain \/ ByExpiration

SpecMaxPain == InitMaxPain /\ [][NextMaxPain]_vars

\* the contracts of the chain that expire in the days asked for
AtExpiration == SelectSeq(calc.options, LAMBDA o : o.expiration = calc.expirationDays)

\* the distinct strikes of that expiration
Candidates == {AtExpiration[k].strike : k \in DOMAIN AtExpiration}

\* the pain at price p, contract by contract: a call below p pays (p - k) * 100
\* per contract, a put above p pays (k - p) * 100 per contract
RECURSIVE Pain(_, _)
Pain(list, p) ==
    IF list = <<>> THEN 0
    ELSE LET o == Head(list)
             due == IF o.type = "call" /\ o.strike < p THEN o.openInterest * (p - o.strike) * 100
                    ELSE IF o.type = "put" /\ o.strike > p THEN o.openInterest * (o.strike - p) * 100
                    ELSE 0
         IN  due + Pain(Tail(list), p)

MaxPainDone == calc.op = "maxPain" /\ calc.done

\* C17: calculateMaxPain returns no result exactly when no contract has the
\* requested expirationDays; otherwise it returns one of the distinct strikes
\* of that expiration whose pain is less than or equal to the pain of every
\* other candidate, the lowest such strike when several tie, and the single
\* strike when there is only one.
C17_MaxPainStrike ==
    MaxPainDone =>
        /\ calc.out.isNull <=> AtExpiration = <<>>
        /\ ~calc.out.isNull =>
            /\ calc.out.maxPainStrike \in Candidates
            /\ \A q \in Candidates :
                /\ Pain(AtExpiration, calc.out.maxPainStrike) <= Pain(AtExpiration, q)
                /\ Pain(AtExpiration, q) = Pain(AtExpiration, calc.out.maxPainStrike)
                      => calc.out.maxPainStrike <= q
            /\ Candidates = {calc.out.maxPainStrike} \/ Cardinality(Candidates) > 1

\* a chain where two strikes tie for the least, nonzero, pain
C17_Witness ==
    /\ MaxPainDone /\ ~calc.out.isNull
    /\ calc.out.maxPainValue > 0
    /\ \E q \in Candidates :
        /\ q > calc.out.maxPainStrike
        /\ Pain(AtExpiration, q) = Pain(AtExpiration, calc.out.maxPainStrike)

C19_ScaleInvariant ==
    MaxPainDone =>
        /\ calc.scaled.isNull <=> calc.out.isNull
        /\ ~calc.out.isNull => calc.scaled.maxPainStrike = calc.out.maxPainStrike

\* the scaling changed the pain at the winner, and the winner is not the
\* lowest strike
C19_Witness ==
    /\ MaxPainDone /\ ~calc.out.isNull
    /\ calc.scaled.maxPainValue > calc.out.maxPainValue
    /\ \E lower \in Candidates : lower < calc.out.maxPainStrike

-----------------------------------------------------------------------------
(* delta-calculator: aggregateDeltaByStrike and calculateGammaFlip.  Gamma  *)
(* exposures are integers; the flip level is the fraction num / den.        *)

MaxDelta == 4     \* entries in a list drawn entry by entry

\* the fields of DeltaData that the aggregation reads
DeltaData(strike, hedgingShares, gammaExposure) ==
    [strike |-> strike, hedgingShares |-> hedgingShares, gammaExposure |-> gammaExposure]

\* hedging shares and gamma exposure of one entry (calculateDeltaManagement
\* gives both the same sign: negative for a call, positive for a put)
ExposureSamples == { <<4, 5>>, <<2, 3>>, <<-4, -3>>, <<-7, -8>> }

DeltaSamples == { DeltaData(k, e[1], e[2]) : k \in {90, 95, 100}, e \in ExposureSamples }

\* net exposures +10, +5, -3, -8 over the strikes 90, 95, 100, 105
LadderChain ==
    << DeltaData(90, 9, 10), DeltaData(95, 4, 5),
       DeltaData(100, -4, -3), DeltaData(105, -7, -8) >>

Abs(x) == IF x < 0 THEN -x ELSE x

\* a variant that adds the negative shares as they are
sellSigned(hedgingShares) == IF hedgingShares < 0 THEN hedgingShares ELSE 0

\* `data.hedgingShares < 0 ? Math.abs(data.hedgingShares) : 0`
sellShare(hedgingShares) == IF hedgingShares < 0 THEN Abs(hedgingShares) ELSE 0

\* the Map built by deltaData.forEach: strike -> accumulated entry
RECURSIVE aggregateDeltaByStrike(_, _)
aggregateDeltaByStrike(deltaData, aggregated) ==
    IF deltaData = <<>> THEN aggregated
    ELSE LET data == Head(deltaData)
             current == IF data.strike \in DOMAIN aggregated
                        THEN aggregated[data.strike]
                        ELSE [delta |-> 0, gamma |-> 0, buyPressure |-> 0,
                              sellPressure |-> 0]
             entry == [delta |-> current.delta + data.hedgingShares,
                       gamma |-> current.gamma + data.gammaExposure,
                       buyPressure |-> current.buyPressure
                            + (IF data.hedgingShares > 0 THEN data.hedgingShares ELSE 0),
                       sellPressure |-> current.sellPressure + sellShare(data.hedgingShares)]
         IN  aggregateDeltaByStrike(Tail(deltaData),
                [k \in DOMAIN aggregated \cup {data.strike} |->
                    IF k = data.strike THEN entry ELSE aggregated[k]])

\* a variant that weighs the step by the exposure of the upper strike
interpolateFromNext(current, next) ==
    [isNull |-> FALSE,
     num |-> current.strike * (Abs(current.gex) + Abs(next.gex))
             + Abs(next.gex) * (next.strike - current.strike),
     den |-> Abs(current.gex) + Abs(next.gex)]

\* current.strike + ratio * (next.strike - current.strike),
\* ratio = |current.gex| / (|current.gex| + |next.gex|)
interpolate(current, next) ==
    [isNull |-> FALSE,
     num |-> current.strike * (Abs(current.gex) + Abs(next.gex))
             + Abs(current.gex) * (next.strike - current.strike),
     den |-> Abs(current.gex) + Abs(next.gex)]

\* the loop `for (let i = 0; i < strikes.length - 1; i++)`
RECURSIVE flipLoop(_, _)
flipLoop(strikes, i) ==
    IF ~(i < Len(strikes)) THEN NoResult
    ELSE LET current == strikes[i]
             next == strikes[i + 1]
         IN  IF (current.gex > 0 /\ next.gex < 0) \/ (current.gex < 0 /\ next.gex > 0)
             THEN interpolate(current, next)
             ELSE flipLoop(strikes, i + 1)

calculateGammaFlip(deltaData) ==
    IF Len(deltaData) = 0 THEN NoResult
    ELSE LET aggregated == aggregateDeltaByStrike(deltaData, <<>>)
             order == SortAscending(DOMAIN aggregated)
             strikes == [i \in DOMAIN order |->
                            [strike |-> order[i], gex |-> aggregated[order[i]].gamma]]
         IN  flipLoop(strikes, 1)

InitGamma ==
    /\ Loaded
    /\ \E deltaData \in SeqsUpTo(DeltaSamples, MaxDelta) \cup {LadderChain} :
        \/ calc = [op |-> "gammaFlip", deltaData |-> deltaData, done |-> FALSE,
                   out |-> NoResult]
        \/ calc = [op |-> "aggregate", deltaData |-> deltaData, done |-> FALSE,
                   out |-> <<>>]

AggregateDelta ==
    /\ calc.op = "aggregate" /\ ~calc.done
    /\ calc' = [calc EXCEPT !.done = TRUE,
                            !.out = aggregateDeltaByStrike(calc.deltaData, <<>>)]
    /\ UNCHANGED world

GammaFlip ==
    /\ calc.op = "gammaFlip" /\ ~calc.done
    /\ calc' = [calc EXCEPT !.done = TRUE, !.out = calculateGammaFlip(calc.deltaData)]
    /\ UNCHANGED world

NextGamma == GammaFlip \/ AggregateDelta

SpecGamma == InitGamma /\ [][NextGamma]_vars

\* the net gamma exposure of the entries at strike k
RECURSIVE NetGex(_, _)
NetGex(list, k) ==
    IF list = <<>> THEN 0
    ELSE (IF Head(list).strike = k THEN Head(list).gammaExposure ELSE 0)
         + NetGex(Tail(list), k)

GammaStrikes == {calc.deltaData[i].strike : i \in DOMAIN calc.deltaData}

\* adjacent strikes whose net exposures have strictly opposite signs
FlipPairs ==
    { pair \in GammaStrikes \X GammaStrikes :
        /\ pair[1] < pair[2]
        /\ ~\E between \in GammaStrikes : pair[1] < between /\ between < pair[2]
        /\ \/ NetGex(calc.deltaData, pair[1]) > 0 /\ NetGex(calc.deltaData, pair[2]) < 0
           \/ NetGex(calc.deltaData, pair[1]) < 0 /\ NetGex(calc.deltaData, pair[2]) > 0 }

GammaDone == calc.op = "gammaFlip" /\ calc.done

\* C20: calculateGammaFlip returns no result when no two adjacent strikes have
\* net gamma exposures of strictly opposite signs (in particular with fewer
\* than 2 strikes); otherwise, for the lowest such pair, it returns
\* strike_i + |gex_i| / (|gex_i| + |gex_i+1|) * (strike_i+1 - strike_i), a
\* value strictly between the two strikes; for +10, +5, -3, -8 over 90, 95,
\* 100, 105 that value is 98.125 (785 / 8).
C20_GammaFlip ==
    GammaDone =>
        /\ calc.out.isNull <=> FlipPairs = {}
        /\ ~calc.out.isNull =>
            \E pair \in FlipPairs :
                LET lo == Abs(NetGex(calc.deltaData, pair[1]))
                    hi == Abs(NetGex(calc.deltaData, pair[2]))
                IN  /\ \A other \in FlipPairs : pair[1] <= other[1]
                    /\ calc.out.num * (lo + hi)
                          = calc.out.den * (pair[1] * (lo + hi) + lo * (pair[2] - pair[1]))
                    /\ calc.out.den > 0
                    /\ pair[1] * calc.out.den < calc.out.num
                    /\ calc.out.num < pair[2] * calc.out.den
        /\ calc.deltaData = LadderChain =>
              ~calc.out.isNull /\ calc.out.num * 8 = 785 * calc.out.den

\* two sign changes in one chain, the exposure of the lowest strike being the
\* sum of two entries, and the step not split in half
C20_Witness ==
    /\ GammaDone /\ ~calc.out.isNull
    /\ Cardinality(FlipPairs) = 2
    /\ Len(calc.deltaData) > Cardinality(GammaStrikes)
    /\ \E pair \in FlipPairs :
        /\ \A other \in FlipPairs : pair[1] <= other[1]
        /\ Abs(NetGex(calc.deltaData, pair[1])) # Abs(NetGex(calc.deltaData, pair[2]))

\* the hedging shares of the entries at strike k that satisfy a sign test
RECURSIVE SharesAt(_, _, _)
SharesAt(list, k, sign) ==
    IF list = <<>> THEN 0
    ELSE LET h == Head(list).hedgingShares
         IN  (IF Head(list).strike = k /\ h * sign > 0 THEN h * sign ELSE 0)
             + SharesAt(Tail(list), k, sign)

AggregateDone == calc.op = "aggregate" /\ calc.done

\* C21: for every strike of the result of aggregateDeltaByStrike, buyPressure
\* is the sum of the positive per-contract hedgingShares at that strike,
\* sellPressure the sum of the absolute values of the negative ones, both are
\* non-negative, and buyPressure - sellPressure is the net delta at the strike.
C21_Pressures ==
    AggregateDone =>
        /\ DOMAIN calc.out = GammaStrikes
        /\ \A k \in DOMAIN calc.out :
            /\ calc.out[k].buyPressure = SharesAt(calc.deltaData, k, 1)
            /\ calc.out[k].sellPressure = SharesAt(calc.deltaData, k, -1)
            /\ calc.out[k].buyPressure >= 0 /\ calc.out[k].sellPressure >= 0
            /\ calc.out[k].buyPressure - calc.out[k].sellPressure = calc.out[k].delta

\* a strike holding exactly one entry of positive and one of negative hedging
\* shares of equal magnitude: both pressures are nonzero and the net is zero
C21_Witness ==
    /\ AggregateDone
    /\ \E k \in DOMAIN calc.out :
        /\ Cardinality({i \in DOMAIN calc.deltaData : calc.deltaData[i].strike = k}) = 2
        /\ calc.out[k].delta = 0
        /\ calc.out[k].buyPressure > 0 /\ calc.out[k].sellPressure > 0

\* C30: whenever the net gamma exposure is strictly positive at one strike and
\* strictly negative at another, calculateGammaFlip returns a flip price, also
\* when strikes with exactly zero net exposure lie between them.
C30_FlipOnAnySignChange ==
    GammaDone =>
        ((\E a, b \in GammaStrikes :
            NetGex(calc.deltaData, a) > 0 /\ NetGex(calc.deltaData, b) < 0)
         => ~calc.out.isNull)

-----------------------------------------------------------------------------
(* delta-calculator: calculateDeltaManagement (the hedge multipliers),      *)
(* calculateDelta and calculateGamma.  Ratios and multipliers are fractions *)
(* num / den with den > 0; the base multiplier is given in tenths.          *)

MaxHedgeOptions == 3     \* contracts in a chain drawn contract by contract

\* the fields of OptionData that the quantities are taken from
HedgeSamples == [type : {"call", "put"}, openInterest : {1, 2, 4}, volume : {0, 3}]

\* the sum of `useVolume ? (opt.volume || 0) : opt.openInterest` over the
\* contracts of one type
RECURSIVE totalQty(_, _, _)
totalQty(options, type, useVolume) ==
    IF options = <<>> THEN 0
    ELSE (IF Head(options).type # type THEN 0
          ELSE IF useVolume THEN Head(options).volume
          ELSE Head(options).openInterest)
         + totalQty(Tail(options), type, useVolume)

Frac(num, den) == [num |-> num, den |-> den]

\* `totalPutQty > 0 ? totalCallQty / totalPutQty : 1`
putCallRatio(totalCallQty, totalPutQty) ==
    IF totalPutQty > 0 THEN Frac(totalCallQty, totalPutQty) ELSE Frac(1, 1)

\* Math.max(0.4, coveredCallMultiplier - (putCallRatio - 1.5) * 0.1) when
\* putCallRatio > 1.5, over the denominator 20 * ratio.den
callHedgeMultiplier(ratio, baseTenths) ==
    IF 2 * ratio.num > 3 * ratio.den
    THEN LET reduced == 2 * ratio.den * baseTenths - (2 * ratio.num - 3 * ratio.den)
         IN  Frac(IF reduced > 8 * ratio.den THEN reduced ELSE 8 * ratio.den,
                  20 * ratio.den)
    ELSE Frac(baseTenths, 10)

\* the multipliers that calculateDeltaManagement applies to calls and to puts
hedgeMultipliers(options, baseTenths, useVolume) ==
    LET ratio == putCallRatio(totalQty(options, "call", useVolume),
                              totalQty(options, "put", useVolume))
    IN  [putCallRatio |-> ratio,
         call |-> callHedgeMultiplier(ratio, baseTenths),
         put |-> Frac(baseTenths, 10)]

Management ==
    /\ calc.op = "management" /\ ~calc.done
    /\ calc' = [calc EXCEPT !.done = TRUE,
                    !.out = hedgeMultipliers(calc.options, calc.base, calc.useVolume)]
    /\ UNCHANGED world

\* IEEE doubles, as far as the boundary cases need them.  An argument is
\* "finite" (kept by its sign), "inf" (with its sign) or "nan"; a result is
\* "exact" (with its value), "inside" the open range of the function, or "nan"
Double(kind, value) == [kind |-> kind, value |-> value]

Sign(x) == IF x > 0 THEN 1 ELSE IF x < 0 THEN -1 ELSE 0

\* Math.log(spotPrice / strike) in units of 1e-5, for the strike 100
logMoneyness(spotPrice) ==
    CASE spotPrice = 0 -> Double("inf", -1)
      [] spotPrice = 90 -> Double("finite", -10536)
      [] spotPrice = 100 -> Double("finite", 0)
      [] spotPrice = 110 -> Double("finite", 9531)

\* d1 = (log(S / K) + (r + 0.5 * v * v) * T) / (v * Math.sqrt(T)), for T > 0,
\* volatility and rate in percent
d1(spotPrice, timeToExpiry, volatility, riskFreeRate) ==
    LET logTerm == logMoneyness(spotPrice)
        numerator ==
            IF logTerm.kind = "finite"
            THEN Double("finite", Sign(logTerm.value
                    + (riskFreeRate * 1000 + 5 * volatility * volatility) * timeToExpiry))
            ELSE logTerm
        denominator == Sign(volatility)
    IN  IF denominator = 0
        THEN IF numerator.value = 0 THEN Double("nan", 0)
             ELSE Double("inf", numerator.value)
        ELSE Double(numerator.kind, numerator.value * denominator)

\* normCDF at a finite point is inside (0, 1); at +Infinity t = 0 and y = 1,
\* at -Infinity the sign turns that into 0; NaN stays NaN
normCDF(x) ==
    CASE x.kind = "nan" -> Double("nan", 0)
      [] x.kind = "inf" -> IF x.value > 0 THEN Double("exact", 1) ELSE Double("exact", 0)
      [] OTHER -> Double("inside", 0)

calculateDelta(spotPrice, strike, timeToExpiry, volatility, riskFreeRate, optionType) ==
    IF timeToExpiry <= 0
    THEN IF optionType = "call"
         THEN (IF spotPrice > strike THEN Double("exact", 1) ELSE Double("exact", 0))
         ELSE (IF spotPrice < strike THEN Double("exact", -1) ELSE Double("exact", 0))
    ELSE LET x == d1(spotPrice, timeToExpiry, volatility, riskFreeRate)
         IN  IF optionType = "call" THEN normCDF(x)
             ELSE LET c == normCDF(Double(x.kind, -x.value))
                  IN  Double(c.kind, -c.value)

calculateGamma(spotPrice, strike, timeToExpiry, volatility, riskFreeRate) ==
    IF timeToExpiry <= 0 \/ spotPrice <= 0 \/ volatility <= 0
    THEN Double("exact", 0)
    ELSE Double("inside", 0)

\* chains for the multipliers (base multiplier 0.5 or 0.6); spot prices
\* against the strike 100, times in years, volatility and rate in percent
InitDelta ==
    /\ Loaded
    /\ \/ \E options \in SeqsUpTo(HedgeSamples, MaxHedgeOptions), base \in {5, 6},
             useVolume \in BOOLEAN :
            calc = [op |-> "management", options |-> options, base |-> base,
                    useVolume |-> useVolume, done |-> FALSE,
                    out |-> [putCallRatio |-> Frac(1, 1), call |-> Frac(0, 1),
                             put |-> Frac(0, 1)]]
       \/ \E S \in {0, 90, 100, 110}, T \in {-1, 0, 1}, v \in {-30, 0, 30}, r \in {0, 5},
             f \in {"delta", "gamma"}, type \in {"call", "put"} :
            calc = [op |-> f, spotPrice |-> S, strike |-> 100, timeToExpiry |-> T,
                    volatility |-> v, riskFreeRate |-> r, optionType |-> type,
                    done |-> FALSE, out |-> Double("exact", 0)]

Delta ==
    /\ calc.op = "delta" /\ ~calc.done
    /\ calc' = [calc EXCEPT !.done = TRUE,
            !.out = calculateDelta(calc.spotPrice, calc.strike, calc.timeToExpiry,
                        calc.volatility, calc.riskFreeRate, calc.optionType)]
    /\ UNCHANGED world

Gamma ==
    /\ calc.op = "gamma" /\ ~calc.done
    /\ calc' = [calc EXCEPT !.done = TRUE,
            !.out = calculateGamma(calc.spotPrice, calc.strike, calc.timeToExpiry,
                        calc.volatility, calc.riskFreeRate)]
    /\ UNCHANGED world

NextDelta == Management \/ Delta \/ Gamma

SpecDelta == InitDelta /\ [][NextDelta]_vars

SameFrac(a, b) == a.num * b.den = b.num * a.den

ManagementDone == calc.op = "management" /\ calc.done

\* C22: putCallRatio is totalPutQuantity / totalCallQuantity when
\* totalCallQuantity > 0 and 1 otherwise; the call-side multiplier is the base
\* multiplier unless that ratio exceeds 1.5, and then the base multiplier
\* reduced by 0.1 * (putCallRatio - 1.5), floored at 0.4; the put-side
\* multiplier is always the base multiplier.
C22_HedgeMultipliers ==
    ManagementDone =>
        LET calls == totalQty(calc.options, "call", calc.useVolume)
            puts == totalQty(calc.options, "put", calc.useVolume)
            ratio == IF calls > 0 THEN Frac(puts, calls) ELSE Frac(1, 1)
            \* base - 0.1 * (ratio - 1.5), over 20 * ratio.den
            reduced == 2 * ratio.den * calc.base - (2 * ratio.num - 3 * ratio.den)
            expected == IF 2 * ratio.num > 3 * ratio.den
                        THEN IF reduced >= 8 * ratio.den
                             THEN Frac(reduced, 20 * ratio.den)
                             ELSE Frac(4, 10)
                        ELSE Frac(calc.base, 10)
        IN  /\ SameFrac(calc.out.putCallRatio, ratio)
            /\ SameFrac(calc.out.call, expected)
            /\ SameFrac(calc.out.put, Frac(calc.base, 10))

\* C23: with time-to-expiry T <= 0 calculateDelta returns 1 for a call when
\* S > K and 0 otherwise, and -1 for a put when S < K and 0 otherwise;
\* calculateGamma returns 0 whenever T <= 0, S <= 0 or volatility <= 0; and a
\* zero volatility gives either function a defined number, never NaN.
C23_BoundaryValues ==
    /\ (calc.op = "delta" /\ calc.done) =>
        /\ calc.timeToExpiry <= 0 =>
            calc.out = Double("exact", IF calc.optionType = "call"
                               THEN (IF calc.spotPrice > calc.strike THEN 1 ELSE 0)
                               ELSE (IF calc.spotPrice < calc.strike THEN -1 ELSE 0))
        /\ calc.volatility = 0 => calc.out.kind # "nan"
    /\ (calc.op = "gamma" /\ calc.done) =>
        /\ (calc.timeToExpiry <= 0 \/ calc.spotPrice <= 0 \/ calc.volatility <= 0)
              => calc.out = Double("exact", 0)
        /\ calc.volatility = 0 => calc.out.kind # "nan"

ExpirationsDone == calc.op = "expirations" /\ calc.done

\* the expirations present in the chain that fall within 60 days
Within60 == {e \in {calc.options[k].expiration : k \in DOMAIN calc.options} : e <= 60}

\* the (up to) 4 smallest of them
Selected == {e \in Within60 : Cardinality({lower \in Within60 : lower < e}) < 4}

\* C24: calculateMaxPainForAllExpirations returns one MaxPainResult per
\* selected expiration, in strictly ascending expirationDays, at most 4 of
\* them, each no more than 60 days from now, the selected expirations being
\* the smallest ones present in the input that fall within 60 days.
C24_SelectedExpirations ==
    ExpirationsDone =>
        /\ Len(calc.all) <= 4
        /\ \A i \in DOMAIN calc.all :
            /\ calc.all[i].expirationDays <= 60
            /\ calc.all[i] = calculateMaxPain(calc.options, calc.all[i].expirationDays,
                                              calc.spotPrice)
            /\ i > 1 => calc.all[i - 1].expirationDays < calc.all[i].expirationDays
        /\ {calc.all[i].expirationDays : i \in DOMAIN calc.all} = Selected

\* C29: whenever calculateMaxPainForAllExpirations returns a non-empty list,
\* its first element equals what calculateNextExpirationMaxPain returns for
\* the same input, also when the input has contracts expiring in 0 days.
C29_FirstIsNearest ==
    (ExpirationsDone /\ calc.all # <<>>) => calc.all[1] = calc.next

-----------------------------------------------------------------------------
(* Overlapping requests *)

\* C25: within one equity request each configured provider is invoked at most
\* once, and the request falls back to synthetic data without an auth failure
\* only after every configured provider has been invoked, also while other
\* equity requests rotate currentProviderIndex during its awaits.
C25_EachProviderOnce ==
    [][\A r \in Requests :
        (Acts(r) /\ ~isCryptoTicker(req'[r].ticker)) =>
            /\ req'[r].pc = "await"
                  => Cardinality(Range(req'[r].invoked)) = Len(req'[r].invoked)
            /\ (req[r].pc \in {"await", "settled"} /\ GotSynthetic(req'[r])
                    /\ ~authFailureDetected')
                  => Range(req[r].invoked) = Range(providers)]_vars

\* C26: when refreshes of the same ticker overlap, the cache entry is never
\* overwritten by a chain whose cascade fetch started earlier than the fetch
\* of the chain already cached.
C26_NoRegression ==
    [][\A t \in Tickers :
        (cache[t].has /\ cache'[t] # cache[t] /\ cache'[t].has)
            => cache'[t].fetched >= cache[t].fetched]_vars

\* C27: the sticky equity auth-failure state is left by a forced refresh:
\* once the flag is set, a getCachedOptionsChain call with forceRefresh = true
\* for an equity ticker has the configured equity providers attempted again.
C27_ForcedRefreshRetries ==
    [][\A r \in Requests :
        ( /\ Starts(r) /\ req'[r].force /\ ~isCryptoTicker(req'[r].ticker)
          /\ authFailureDetected /\ Len(providers) > 0 )
        => (req'[r].pc = "await" /\ req'[r].invoked # <<>>)]_vars

\* C28: every chain returned by ProviderManager.fetchOptionsChain, on the
\* equity path, the crypto path and the synthetic path, has at least one
\* contract.
C28_ReturnedChainNonEmpty ==
    \A r \in Requests : req[r].pc = "store" => req[r].data.n > 0

====
